---------------------------- MODULE Spec2Model ----------------------------
(***************************************************************************)
(* liteMQ: a topic based publish/subscribe broker (src/server.c) with its  *)
(* persistence store (src/persistence.c).                                  *)
(*                                                                         *)
(* Byte strings are sequences of one-character strings.  One action is one *)
(* call of handle_new_connection or handle_client_data, as dispatched by   *)
(* the poll loop of main; Tick lets time(NULL) advance between calls.      *)
(***************************************************************************)
EXTENDS Integers, Sequences, FiniteSets, TLC

\* ------------------------------------------------------------------------
\* Program constants and model bounds
\* ------------------------------------------------------------------------

\* Number of client slots.  The source sets 32; the model keeps the table
\* small so that "all slots occupied" is reachable.
MAX_CLIENTS == 2

MAX_TOPIC_LEN == 50

BUFFER_SIZE == 1024

\* Number of connections the peers open during one run.
MaxConns == 3

\* time(NULL) at start-up and the number of seconds that may pass.
Epoch == 1700000000

MaxTick == 1

\* Largest --persist-timed argument tried.
MaxDuration == 1

\* The listening socket's descriptor (0, 1, 2 are the standard streams).
SERVER_FD == 3

CLIENT_TYPE_UNKNOWN == "UNKNOWN"

CLIENT_TYPE_SUBSCRIBER == "SUBSCRIBER"

PERSIST_NONE == "NONE"

PERSIST_ALL == "ALL"

PERSIST_TIMED == "TIMED"

\* ------------------------------------------------------------------------
\* C string helpers
\* ------------------------------------------------------------------------

SetMin(S) == CHOOSE x \in S : \A y \in S : x <= y

Rep(c, n) == [k \in 1..n |-> c]

DigitChars == <<"0", "1", "2", "3", "4", "5", "6", "7", "8", "9">>

IsDigit(c) == \E d \in 1..10 : DigitChars[d] = c

DigitVal(c) == (CHOOSE d \in 1..10 : DigitChars[d] = c) - 1

\* isspace() on the characters the model uses.
IsSpace(c) == c \in {" ", "\n", "\t"}

\* strncmp(s, p, strlen(p)) == 0
StartsWith(s, p) == Len(s) >= Len(p) /\ SubSeq(s, 1, Len(p)) = p

\* strchr(s + from - 1, c): index of the first c at or after from, 0 if none.
StrChr(s, from, c) ==
    LET hits == {k \in from..Len(s) : s[k] = c}
    IN  IF hits = {} THEN 0 ELSE SetMin(hits)

\* The suffix of s starting at index from.
From(s, from) == SubSeq(s, from, Len(s))

RECURSIVE Concat(_)
Concat(ss) == IF ss = <<>> THEN <<>> ELSE Head(ss) \o Concat(Tail(ss))

\* printf's %ld
RECURSIVE FmtNat(_)
FmtNat(n) == IF n < 10 THEN <<DigitChars[n + 1]>>
             ELSE FmtNat(n \div 10) \o <<DigitChars[(n % 10) + 1]>>

FmtLong(n) == IF n < 0 THEN <<"-">> \o FmtNat(-n) ELSE FmtNat(n)

RECURSIVE DigitsValue(_, _)
DigitsValue(ds, acc) ==
    IF ds = <<>> THEN acc
    ELSE DigitsValue(Tail(ds), acc * 10 + DigitVal(Head(ds)))

\* The first index at or after from whose character is not in the class
\* (Len(s) + 1 if there is none).
SkipSpaces(s, from) ==
    CHOOSE k \in from..(Len(s) + 1) :
        /\ k = Len(s) + 1 \/ ~IsSpace(s[k])
        /\ \A j \in from..(k - 1) : IsSpace(s[j])

SkipDigits(s, from) ==
    CHOOSE k \in from..(Len(s) + 1) :
        /\ k = Len(s) + 1 \/ ~IsDigit(s[k])
        /\ \A j \in from..(k - 1) : IsDigit(s[j])

\* strtol(s, &end, 10): leading white space, an optional sign, then digits.
\* Without any digit the value is 0 and end is the start of s.
StrToL(s) ==
    LET p0  == SkipSpaces(s, 1)
        sgn == p0 <= Len(s) /\ s[p0] \in {"-", "+"}
        p1  == IF sgn THEN p0 + 1 ELSE p0
        p2  == SkipDigits(s, p1)
        mag == DigitsValue(SubSeq(s, p1, p2 - 1), 0)
    IN  IF p2 = p1 THEN [val |-> 0, end |-> 1]
        ELSE [val |-> IF sgn /\ s[p0] = "-" THEN -mag ELSE mag, end |-> p2]

\* The successive results of fgets(line, BUFFER_SIZE, fp) until end of file:
\* each stops after a newline or after BUFFER_SIZE - 1 characters.
RECURSIVE FGetsLines(_)
FGetsLines(s) ==
    IF s = <<>> THEN <<>>
    ELSE LET lim == IF Len(s) < BUFFER_SIZE - 1 THEN Len(s) ELSE BUFFER_SIZE - 1
             nl  == StrChr(SubSeq(s, 1, lim), 1, "\n")
             n   == IF nl = 0 THEN lim ELSE nl
         IN  <<SubSeq(s, 1, n)>> \o FGetsLines(From(s, n + 1))


\* ------------------------------------------------------------------------
\* Wire protocol and the inputs peers send
\* ------------------------------------------------------------------------

SUB == <<"S", "U", "B", " ">>

PUB == <<"P", "U", "B", " ">>

MSG == <<"M", "S", "G", " ">>

T1 == <<"t">>

T2 == <<"T">>

\* Topics that name a log file in the model.
Topics == {T1, T2}

\* A topic of MAX_TOPIC_LEN characters: one too long.
LongTopic == Rep("t", MAX_TOPIC_LEN)

M_line == <<"h", "i", "\n">>

M_bare == <<"7", "2", "F">>

M_empty == <<>>

M_multi == <<"a", "\n", "b", "\n">>

\* The longest message a PUB for T1 can carry in one read.
M_long == Rep("x", BUFFER_SIZE - 1 - Len(PUB) - Len(T1) - 2) \o <<"\n">>

Messages == {M_line, M_bare, M_empty, M_multi, M_long}

PubOf(t, m) == PUB \o t \o <<"\n">> \o m

SubInputs == {SUB \o T1, SUB \o T2 \o <<"\n">>, SUB, SUB \o LongTopic}

PubInputs == {PubOf(T1, m) : m \in Messages} \cup
             {PUB \o T1, PubOf(<<>>, M_line), PubOf(LongTopic, M_line)}

OtherInputs == {<<"x">>}

\* What a peer may send in one segment.
Inputs == SubInputs \cup PubInputs \cup OtherInputs

\* read(fd, buffer, BUFFER_SIZE - 1): n <= 0 is end of file or an error.
ReadOf(bytes) ==
    LET n == IF Len(bytes) < BUFFER_SIZE - 1 THEN Len(bytes) ELSE BUFFER_SIZE - 1
    IN  [n |-> n, data |-> SubSeq(bytes, 1, n)]

Reads == {ReadOf(b) : b \in Inputs} \cup {[n |-> 0, data |-> <<>>]}

\* ------------------------------------------------------------------------
\* State
\* ------------------------------------------------------------------------

VARIABLES
    fds,          \* fds[i].fd of main's pollfd table, i in 0..MAX_CLIENTS
    clients,      \* clients[i] of main's client_t table
    p_mode,       \* persistence_mode
    p_duration,   \* persistence_duration
    logs,         \* logs/<topic>.log per topic: [exists, data]
    tmps,         \* logs/<topic>.log.tmp per topic: [exists, data]
    now,          \* time(NULL)
    owner,        \* per descriptor: the connection it is open for, 0 if closed
    nconn,        \* connections accepted so far
    subOf,        \* per slot: the topic its peer asked for in a well-formed SUB
                  \* while its connection is open, <<>> otherwise
    pubs,         \* per topic: the messages appended to its log, with their times
    last          \* the call just made: its input, its system calls, the state before

vars == <<fds, clients, p_mode, p_duration, logs, tmps, now, owner, nconn,
          subOf, pubs, last>>

Slots == 0..MAX_CLIENTS

ClientSlots == 1..MAX_CLIENTS

\* Descriptors accept() can return: every slot full plus the one being rejected.
FdRange == (SERVER_FD + 1)..(SERVER_FD + MAX_CLIENTS + 1)

NoFile == [exists |-> FALSE, data |-> <<>>]

\* The file of that name in a directory listing fs.
GetFile(fs, name) == IF name \in DOMAIN fs THEN fs[name] ELSE NoFile

PutFile(fs, name, f) ==
    [n \in DOMAIN fs \cup {name} |-> IF n = name THEN f ELSE fs[n]]

FreeClient == [fd |-> -1, type |-> CLIENT_TYPE_UNKNOWN, topic |-> <<>>]

\* The part of the state a handler works on, with the system calls it made.
World == [fds |-> fds, clients |-> clients, logs |-> logs, tmps |-> tmps,
          owner |-> owner, writes |-> <<>>, closed |-> <<>>]

\* close(fd)
DoClose(w, fd) ==
    [w EXCEPT !.owner = [f \in FdRange |-> IF f = fd THEN 0 ELSE w.owner[f]],
              !.closed = Append(@, fd)]

\* write(fd, data, strlen(data)); ok is whether the call succeeds.
DoWrite(w, fd, data, ok) ==
    [w EXCEPT !.writes = Append(@, [fd |-> fd,
                                    conn |-> IF fd \in FdRange THEN w.owner[fd] ELSE 0,
                                    data |-> data, ok |-> ok])]

\* ------------------------------------------------------------------------
\* Persistence store (src/persistence.c)
\* ------------------------------------------------------------------------

\* Variant: the mode check at the top of persist_message is missing, so an
\* entry is appended under PERSIST_NONE as well.
persist_message_unchecked(w, topic, message, mode, t, appendOk) ==
    IF ~appendOk THEN w
    ELSE LET entry == IF mode = PERSIST_TIMED
                      THEN FmtLong(t) \o <<" ">> \o message
                      ELSE message
         IN  [w EXCEPT !.logs = PutFile(@, topic,
                 [exists |-> TRUE, data |-> GetFile(w.logs, topic).data \o entry])]

\* persist_message(topic, message, p_mode) at time t; appendOk is whether
\* fopen(filepath, "a") succeeds.
persist_message(w, topic, message, mode, t, appendOk) ==
    IF mode = PERSIST_NONE THEN w
    ELSE IF ~appendOk THEN w
    ELSE LET entry == IF mode = PERSIST_TIMED
                      THEN FmtLong(t) \o <<" ">> \o message
                      ELSE message
         IN  [w EXCEPT !.logs = PutFile(@, topic,
                 [exists |-> TRUE, data |-> GetFile(w.logs, topic).data \o entry])]

\* Variant: a line on which strtol converts nothing is given the current
\* time as its timestamp.
TimedLine_lenient(line, duration, t) ==
    LET p     == StrToL(line)
        start == IF p.end <= Len(line) /\ line[p.end] = " " THEN p.end + 1 ELSE p.end
        stamp == IF p.end = 1 THEN t ELSE p.val
    IN  [msg_time |-> stamp,
         content  |-> From(line, start),
         valid    |-> t - stamp <= duration]

\* One pass of the timed branch of the fgets loop: the message part of a
\* line, and whether the line is still within the duration at time t.
TimedLine(line, duration, t) ==
    LET p     == StrToL(line)
        start == IF p.end <= Len(line) /\ line[p.end] = " " THEN p.end + 1 ELSE p.end
    IN  [msg_time |-> p.val,
         content  |-> From(line, start),
         valid    |-> t - p.val <= duration]

\* Variant: the loop prints a retained entry to the temp file without its
\* timestamp.
RECURSIVE ReplayLoop_bare(_, _, _, _)
ReplayLoop_bare(lines, mode, duration, t) ==
    IF lines = <<>> THEN [out |-> <<>>, kept |-> <<>>]
    ELSE LET line == Head(lines)
             rest == ReplayLoop_bare(Tail(lines), mode, duration, t)
         IN  IF mode = PERSIST_TIMED
             THEN LET e == TimedLine(line, duration, t)
                  IN  IF e.valid
                      THEN [out  |-> <<e.content>> \o rest.out,
                            kept |-> e.content \o rest.kept]
                      ELSE rest
             ELSE [out |-> <<line>> \o rest.out, kept |-> rest.kept]

\* The fgets loop of send_persisted_messages over the lines read: the
\* buffers handed to write(), in order, and the text printed to the temp file.
RECURSIVE ReplayLoop(_, _, _, _)
ReplayLoop(lines, mode, duration, t) ==
    IF lines = <<>> THEN [out |-> <<>>, kept |-> <<>>]
    ELSE LET line == Head(lines)
             rest == ReplayLoop(Tail(lines), mode, duration, t)
         IN  IF mode = PERSIST_TIMED
             THEN LET e == TimedLine(line, duration, t)
                  IN  IF e.valid
                      THEN [out  |-> <<e.content>> \o rest.out,
                            kept |-> FmtLong(e.msg_time) \o <<" ">> \o e.content
                                     \o rest.kept]
                      ELSE rest
             ELSE [out |-> <<line>> \o rest.out, kept |-> rest.kept]

RECURSIVE WriteAll(_, _, _, _)
WriteAll(w, fd, bufs, ok) ==
    IF bufs = <<>> THEN w
    ELSE WriteAll(DoWrite(w, fd, Head(bufs), ok), fd, Tail(bufs), ok)

\* Variant: the temp file is opened and renamed over the log under every
\* mode, not only under PERSIST_TIMED.
send_persisted_messages_rewrite(w, fd, topic, mode, duration, t, tmpOk, renameOk, writeOk) ==
    IF mode = PERSIST_NONE THEN w
    ELSE IF ~GetFile(w.logs, topic).exists THEN w
    ELSE IF ~tmpOk THEN w
    ELSE LET r  == ReplayLoop(FGetsLines(GetFile(w.logs, topic).data), mode, duration, t)
             w1 == WriteAll(w, fd, r.out, writeOk)
             f  == [exists |-> TRUE, data |-> r.kept]
         IN  IF renameOk
             THEN [w1 EXCEPT !.logs = PutFile(@, topic, f),
                             !.tmps = PutFile(@, topic, NoFile)]
             ELSE [w1 EXCEPT !.tmps = PutFile(@, topic, f)]

\* Variant: the log is opened for update, which creates it when it is missing.
send_persisted_messages_create(w, fd, topic, mode, duration, t, tmpOk, renameOk, writeOk) ==
    IF mode = PERSIST_NONE THEN w
    ELSE IF ~GetFile(w.logs, topic).exists
         THEN [w EXCEPT !.logs = PutFile(@, topic, [exists |-> TRUE, data |-> <<>>])]
    ELSE IF mode = PERSIST_TIMED /\ ~tmpOk THEN w
    ELSE LET r  == ReplayLoop(FGetsLines(GetFile(w.logs, topic).data), mode, duration, t)
             w1 == WriteAll(w, fd, r.out, writeOk)
             f  == [exists |-> TRUE, data |-> r.kept]
         IN  IF mode # PERSIST_TIMED THEN w1
             ELSE IF renameOk
                  THEN [w1 EXCEPT !.logs = PutFile(@, topic, f),
                                  !.tmps = PutFile(@, topic, NoFile)]
                  ELSE [w1 EXCEPT !.tmps = PutFile(@, topic, f)]

\* send_persisted_messages(fd, topic, p_mode, p_duration) at time t.  tmpOk:
\* fopen of the temp file succeeds; renameOk: rename() succeeds; writeOk:
\* the writes to fd succeed.
send_persisted_messages(w, fd, topic, mode, duration, t, tmpOk, renameOk, writeOk) ==
    IF mode = PERSIST_NONE THEN w
    ELSE IF ~GetFile(w.logs, topic).exists THEN w
    ELSE IF mode = PERSIST_TIMED /\ ~tmpOk THEN w
    ELSE LET r  == ReplayLoop(FGetsLines(GetFile(w.logs, topic).data), mode, duration, t)
             w1 == WriteAll(w, fd, r.out, writeOk)
             f  == [exists |-> TRUE, data |-> r.kept]
         IN  IF mode # PERSIST_TIMED THEN w1
             ELSE IF renameOk
                  THEN [w1 EXCEPT !.logs = PutFile(@, topic, f),
                                  !.tmps = PutFile(@, topic, NoFile)]
                  ELSE [w1 EXCEPT !.tmps = PutFile(@, topic, f)]

\* The lines the fgets loop of a replay of topic will read: none when the
\* function returns before the loop.
ReplayLines(w, topic, mode) ==
    IF mode = PERSIST_NONE \/ ~GetFile(w.logs, topic).exists THEN <<>>
    ELSE FGetsLines(GetFile(w.logs, topic).data)

\* Variant: the loop prints the retained entries into the log file itself.
ReplayInterrupted_inplace(w, fd, topic, mode, duration, t, k) ==
    IF mode = PERSIST_NONE \/ ~GetFile(w.logs, topic).exists THEN w
    ELSE LET r  == ReplayLoop(SubSeq(ReplayLines(w, topic, mode), 1, k),
                              mode, duration, t)
             w1 == WriteAll(w, fd, r.out, TRUE)
         IN  IF mode # PERSIST_TIMED THEN w1
             ELSE [w1 EXCEPT !.logs = PutFile(@, topic,
                                          [exists |-> TRUE, data |-> r.kept])]

\* send_persisted_messages stopped inside its fgets loop after k lines:
\* the first k lines were written to fd and, under PERSIST_TIMED, those
\* retained were printed to the temp file; nothing has been renamed.
ReplayInterrupted(w, fd, topic, mode, duration, t, k) ==
    IF mode = PERSIST_NONE \/ ~GetFile(w.logs, topic).exists THEN w
    ELSE LET r  == ReplayLoop(SubSeq(ReplayLines(w, topic, mode), 1, k),
                              mode, duration, t)
             w1 == WriteAll(w, fd, r.out, TRUE)
         IN  IF mode # PERSIST_TIMED THEN w1
             ELSE [w1 EXCEPT !.tmps = PutFile(@, topic,
                                          [exists |-> TRUE, data |-> r.kept])]

\* ------------------------------------------------------------------------
\* Broker (src/server.c)
\* ------------------------------------------------------------------------

\* Variant: the slot is released with its state and topic left in place.
ReleaseSlot_keeptype(w, i) ==
    LET w1 == DoClose(w, w.fds[i])
    IN  [w1 EXCEPT !.fds[i] = -1, !.clients[i].fd = -1]

\* Variant: the slot is cleared without close() of its handle.
ReleaseSlot_noclose(w, i) ==
    [w EXCEPT !.fds[i] = -1, !.clients[i] = FreeClient]

\* close(pfd->fd); pfd->fd = -1; client->fd = -1; client->type = UNKNOWN;
\* memset(client->topic, 0, MAX_TOPIC_LEN)
ReleaseSlot(w, i) ==
    LET w1 == DoClose(w, w.fds[i])
    IN  [w1 EXCEPT !.fds[i] = -1, !.clients[i] = FreeClient]

\* Variant: the PUB branch ends without closing the publisher.
DisconnectPublisher_open(w, i) == w

\* Variant: the PUB branch clears the handle in the readiness set only.
DisconnectPublisher_half(w, i) ==
    LET w1 == DoClose(w, w.fds[i])
    IN  [w1 EXCEPT !.fds[i] = -1]

\* The end of the PUB branch: close(pfd->fd); pfd->fd = -1; client->fd = -1
DisconnectPublisher(w, i) ==
    LET w1 == DoClose(w, w.fds[i])
    IN  [w1 EXCEPT !.fds[i] = -1, !.clients[i].fd = -1]

\* Variant: the forwarding loop writes to every open slot, whatever its
\* type and topic.
IsTarget_open(w, j, pub_topic) == w.fds[j] # -1

\* The condition under which the forwarding loop writes to slot j.
IsTarget(w, j, pub_topic) ==
    /\ w.fds[j] # -1
    /\ w.clients[j].type = CLIENT_TYPE_SUBSCRIBER
    /\ w.clients[j].topic = pub_topic

\* Variant: the frame is formatted as "MSG: %s\n%s".
Frame_colon(pub_topic, msg) ==
    <<"M", "S", "G", ":", " ">> \o pub_topic \o <<"\n">> \o msg

\* snprintf(message_to_send, BUFFER_SIZE, "MSG %s\n%s", pub_topic, msg_start)
Frame(pub_topic, msg) == MSG \o pub_topic \o <<"\n">> \o msg

\* The forwarding loop from slot j on; writes to the slots in wfail fail.
RECURSIVE Forward(_, _, _, _, _)
Forward(w, j, pub_topic, msg, wfail) ==
    IF j > MAX_CLIENTS THEN w
    ELSE LET frame == Frame(pub_topic, msg)
             w1 == IF IsTarget(w, j, pub_topic) /\ Len(frame) < BUFFER_SIZE
                   THEN DoWrite(w, w.clients[j].fd, frame, j \notin wfail)
                   ELSE w
         IN  Forward(w1, j + 1, pub_topic, msg, wfail)

\* Variant: a SUB with an empty or oversized topic is reported and the
\* connection is left open.
SubBranch_keep(w, i, buffer, mode, duration, t, env) ==
    LET newline_pos == StrChr(buffer, 5, "\n")
        topic_len   == IF newline_pos # 0 THEN newline_pos - 5 ELSE Len(buffer) - 4
        topic       == SubSeq(buffer, 5, 4 + topic_len)
    IN  IF topic_len > 0 /\ topic_len < MAX_TOPIC_LEN
        THEN LET w1 == [w EXCEPT !.clients[i].type = CLIENT_TYPE_SUBSCRIBER,
                                 !.clients[i].topic = topic]
             IN  send_persisted_messages(w1, w1.fds[i], topic, mode, duration, t,
                                         env.tmpOk, env.renameOk, i \notin env.wfail)
        ELSE w

\* Variant: the stored messages are also replayed to every other open
\* connection.
SubBranch_broadcast(w, i, buffer, mode, duration, t, env) ==
    LET newline_pos == StrChr(buffer, 5, "\n")
        topic_len   == IF newline_pos # 0 THEN newline_pos - 5 ELSE Len(buffer) - 4
        topic       == SubSeq(buffer, 5, 4 + topic_len)
        others      == {j \in ClientSlots : j # i /\ w.fds[j] # -1}
    IN  IF topic_len > 0 /\ topic_len < MAX_TOPIC_LEN
        THEN LET w1 == [w EXCEPT !.clients[i].type = CLIENT_TYPE_SUBSCRIBER,
                                 !.clients[i].topic = topic]
                 w2 == send_persisted_messages(w1, w1.fds[i], topic, mode, duration, t,
                                               env.tmpOk, env.renameOk, i \notin env.wfail)
             IN  IF others = {} THEN w2
                 ELSE send_persisted_messages(w2, w2.fds[SetMin(others)], topic,
                                              PERSIST_ALL, duration, t, TRUE, TRUE, TRUE)
        ELSE ReleaseSlot(w, i)

\* The SUB branch taken from CLIENT_TYPE_UNKNOWN.
SubBranch(w, i, buffer, mode, duration, t, env) ==
    LET newline_pos == StrChr(buffer, 5, "\n")
        topic_len   == IF newline_pos # 0 THEN newline_pos - 5 ELSE Len(buffer) - 4
        topic       == SubSeq(buffer, 5, 4 + topic_len)
    IN  IF topic_len > 0 /\ topic_len < MAX_TOPIC_LEN
        THEN LET w1 == [w EXCEPT !.clients[i].type = CLIENT_TYPE_SUBSCRIBER,
                                 !.clients[i].topic = topic]
             IN  send_persisted_messages(w1, w1.fds[i], topic, mode, duration, t,
                                         env.tmpOk, env.renameOk, i \notin env.wfail)
        ELSE ReleaseSlot(w, i)

\* Variant: the PUB branch does not test the length of the topic.
PubBranch_unchecked(w, i, buffer, mode, t, env) ==
    LET msg_start == StrChr(buffer, 1, "\n")
        topic_len == msg_start - 5
        pub_topic == SubSeq(buffer, 5, 4 + topic_len)
        msg       == From(buffer, msg_start + 1)
        w1 == IF msg_start # 0
              THEN Forward(persist_message(w, pub_topic, msg, mode, t, env.appendOk),
                           1, pub_topic, msg, env.wfail)
              ELSE w
    IN  DisconnectPublisher(w1, i)

\* The PUB branch.
PubBranch(w, i, buffer, mode, t, env) ==
    LET msg_start == StrChr(buffer, 1, "\n")
        topic_len == msg_start - 5
        pub_topic == SubSeq(buffer, 5, 4 + topic_len)
        msg       == From(buffer, msg_start + 1)
        w1 == IF msg_start # 0 /\ topic_len > 0 /\ topic_len < MAX_TOPIC_LEN
              THEN Forward(persist_message(w, pub_topic, msg, mode, t, env.appendOk),
                           1, pub_topic, msg, env.wfail)
              ELSE w
    IN  DisconnectPublisher(w1, i)

\* Variant: a command that is neither SUB nor PUB is ignored and the
\* connection is left open.
handle_client_data_ignore(w, i, rd, mode, duration, t, env) ==
    IF rd.n <= 0 THEN ReleaseSlot(w, i)
    ELSE LET buffer  == rd.data
             unknown == w.clients[i].type = CLIENT_TYPE_UNKNOWN
             isSub   == StartsWith(buffer, SUB)
             isPub   == StartsWith(buffer, PUB)
             first   == IF unknown /\ isSub
                        THEN SubBranch(w, i, buffer, mode, duration, t, env)
                        ELSE w
         IN  IF unknown /\ ~isSub /\ ~isPub THEN w
             ELSE CHOOSE w2 \in
                      {IF isPub THEN PubBranch(w1, i, buffer, mode, t, env)
                       ELSE IF w1.clients[i].type = CLIENT_TYPE_SUBSCRIBER
                            THEN ReleaseSlot(w1, i)
                            ELSE w1 : w1 \in {first}} : TRUE

\* handle_client_data(&fds[i], &clients[i], p_mode, p_duration, fds, clients)
\* when read() returns rd.  first is the state after the first if statement
\* (client->type == CLIENT_TYPE_UNKNOWN), w1 that state as the second if
\* statement (PUB, else SUBSCRIBER) finds it.
handle_client_data(w, i, rd, mode, duration, t, env) ==
    IF rd.n <= 0 THEN ReleaseSlot(w, i)
    ELSE LET buffer  == rd.data
             unknown == w.clients[i].type = CLIENT_TYPE_UNKNOWN
             isSub   == StartsWith(buffer, SUB)
             isPub   == StartsWith(buffer, PUB)
             first   == IF unknown /\ isSub
                        THEN SubBranch(w, i, buffer, mode, duration, t, env)
                        ELSE w
         IN  IF unknown /\ ~isSub /\ ~isPub THEN ReleaseSlot(w, i)
             ELSE CHOOSE w2 \in
                      {IF isPub THEN PubBranch(w1, i, buffer, mode, t, env)
                       ELSE IF w1.clients[i].type = CLIENT_TYPE_SUBSCRIBER
                            THEN ReleaseSlot(w1, i)
                            ELSE w1 : w1 \in {first}} : TRUE

\* The free slots the search loop of handle_new_connection can take.
FreeSlots(w) == {i \in ClientSlots : w.fds[i] = -1}

\* Variant: with no free slot the accepted handle is left open.
handle_new_connection_leak(w, new_socket, c) ==
    LET w0 == [w EXCEPT !.owner[new_socket] = c]
    IN  IF FreeSlots(w0) # {}
        THEN LET i == SetMin(FreeSlots(w0))
             IN  [w0 EXCEPT !.fds[i] = new_socket, !.clients[i].fd = new_socket]
        ELSE w0

\* Variant: the search loop runs from MAX_CLIENTS down to 1.
handle_new_connection_highest(w, new_socket, c) ==
    LET w0 == [w EXCEPT !.owner[new_socket] = c]
    IN  IF FreeSlots(w0) # {}
        THEN LET i == CHOOSE m \in FreeSlots(w0) : \A n \in FreeSlots(w0) : n <= m
             IN  [w0 EXCEPT !.fds[i] = new_socket, !.clients[i].fd = new_socket]
        ELSE DoClose(w0, new_socket)

\* handle_new_connection(server_fd, fds, clients) when accept() returns
\* new_socket for connection c.
handle_new_connection(w, new_socket, c) ==
    LET w0 == [w EXCEPT !.owner[new_socket] = c]
    IN  IF FreeSlots(w0) # {}
        THEN LET i == SetMin(FreeSlots(w0))
             IN  [w0 EXCEPT !.fds[i] = new_socket, !.clients[i].fd = new_socket]
        ELSE DoClose(w0, new_socket)

\* ------------------------------------------------------------------------
\* Environment outcomes, initial state and actions
\* ------------------------------------------------------------------------

\* The outcomes of the system calls one handle_client_data call may make.
\* A failure is drawn only for a call the handler can make on that input.
Envs(w, i, rd, mode) ==
    LET isSub == rd.n > 0 /\ StartsWith(rd.data, SUB)
        isPub == rd.n > 0 /\ StartsWith(rd.data, PUB)
        timed == isSub /\ mode = PERSIST_TIMED
        subs  == {j \in ClientSlots : w.clients[j].type = CLIENT_TYPE_SUBSCRIBER}
    IN  {e \in [appendOk : BOOLEAN, tmpOk : BOOLEAN, renameOk : BOOLEAN,
                wfail : SUBSET ClientSlots] :
            /\ e.appendOk \/ (isPub /\ mode # PERSIST_NONE)
            /\ e.tmpOk \/ timed
            /\ e.renameOk \/ (timed /\ e.tmpOk)
            /\ e.wfail \subseteq (IF isPub THEN subs ELSE {})}

NoEnv == [appendOk |-> TRUE, tmpOk |-> TRUE, renameOk |-> TRUE, wfail |-> {}]

NoRead == [n |-> 0, data |-> <<>>]

\* What the peers meant by the bytes they sent (the wire protocol of the
\* two clients, src/subscriber.c and src/publisher.c).
SubTopicOf(bytes) ==
    IF \E t \in Topics : bytes \in {SUB \o t, SUB \o t \o <<"\n">>}
    THEN CHOOSE t \in Topics : bytes \in {SUB \o t, SUB \o t \o <<"\n">>}
    ELSE <<>>

IsPubOf(bytes) == \E t \in Topics, m \in Messages : bytes = PubOf(t, m)

PubTopicOf(bytes) ==
    CHOOSE t \in Topics : \E m \in Messages : bytes = PubOf(t, m)

PubMsgOf(bytes) ==
    CHOOSE m \in Messages : \E t \in Topics : bytes = PubOf(t, m)

\* The bytes handed to write() for connection c during a call, in order.
OutTo(writes, c) ==
    Concat([k \in 1..Len(writes) |->
               IF writes[k].conn = c THEN writes[k].data ELSE <<>>])

\* The time a call read with time(NULL) when what it did depended on it.
TimeRead == IF p_mode = PERSIST_TIMED THEN now ELSE 0

\* Whether a replay under these outcomes ran to its end.
Completed(env) == p_mode # PERSIST_TIMED \/ (env.tmpOk /\ env.renameOk)

NoPrev == [sub |-> <<>>, conn |-> 0, t |-> 0, done |-> FALSE, out |-> <<>>]

\* What the next call remembers of the call before it: a subscribe request
\* of a peer that had sent nothing before, and what was replayed to it.
PrevOf(l) ==
    IF l.op = "data" /\ l.rd.n > 0 /\ SubTopicOf(l.rd.data) # <<>>
       /\ l.pre.subOf[l.slot] = <<>>
    THEN [sub |-> SubTopicOf(l.rd.data), conn |-> l.conn, t |-> l.t,
          done |-> Completed(l.env), out |-> OutTo(l.writes, l.conn)]
    ELSE IF l.op = "data" THEN NoPrev
    ELSE l.prev

Pre == [fds |-> fds, clients |-> clients, logs |-> logs, tmps |-> tmps,
        owner |-> owner, subOf |-> subOf, pubs |-> pubs]

\* main() up to the poll loop: both tables cleared, slot 0 holds the
\* listening socket, the mode taken from the command line.
Init ==
    /\ fds = [i \in Slots |-> IF i = 0 THEN SERVER_FD ELSE -1]
    /\ clients = [i \in Slots |->
                     IF i = 0 THEN [FreeClient EXCEPT !.fd = SERVER_FD] ELSE FreeClient]
    /\ p_mode \in {PERSIST_NONE, PERSIST_ALL, PERSIST_TIMED}
    /\ p_duration \in (IF p_mode = PERSIST_TIMED THEN 0..MaxDuration ELSE {0})
    /\ logs = [t \in Topics |-> NoFile]
    /\ tmps = [t \in Topics |-> NoFile]
    /\ now = Epoch
    /\ owner = [f \in FdRange |-> 0]
    /\ nconn = 0
    /\ subOf = [i \in Slots |-> <<>>]
    /\ pubs = [t \in Topics |-> <<>>]
    /\ last = [op |-> "init", slot |-> 0, conn |-> 0, fd |-> -1, rd |-> NoRead,
               env |-> NoEnv, t |-> 0, writes |-> <<>>, closed |-> <<>>,
               pre |-> [fds |-> fds, clients |-> clients, logs |-> logs,
                        tmps |-> tmps, owner |-> owner, subOf |-> subOf,
                        pubs |-> pubs],
               prev |-> NoPrev, rej |-> 0, was |-> 0]

\* The tables of a broker process that has been killed.
Gone == [fds    |-> [i \in Slots |-> -1],
         clients |-> [i \in Slots |-> FreeClient],
         owner  |-> [f \in FdRange |-> 0],
         subOf  |-> [i \in Slots |-> <<>>]]

\* The state a handler leaves behind.
Commit(w) ==
    /\ fds' = w.fds
    /\ clients' = w.clients
    /\ logs' = w.logs
    /\ tmps' = w.tmps
    /\ owner' = w.owner

\* What is remembered of a rejection at capacity: -1 from the rejection
\* until a slot is released, then the index of that slot until the next
\* accept or a second release, 0 otherwise.
RejAfter(rej, i, released) ==
    IF ~released THEN rej
    ELSE IF rej = -1 THEN i
    ELSE 0

\* The poll loop finds the listening socket readable and accept() succeeds.
\* Connections are numbered in the order they are registered; one rejected
\* at capacity is not counted.
HandleNewConnection ==
    /\ fds[0] = SERVER_FD
    /\ nconn < MaxConns
    /\ \E new_socket \in {SetMin({f \in FdRange : owner[f] = 0})} :
         \E w \in {handle_new_connection(World, new_socket, nconn + 1)} :
           /\ Commit(w)
           /\ nconn' = IF FreeSlots(World) # {} THEN nconn + 1 ELSE nconn
           /\ last' = [op |-> "accept", slot |-> 0, conn |-> nconn + 1,
                       fd |-> new_socket, rd |-> NoRead, env |-> NoEnv, t |-> TimeRead,
                       writes |-> w.writes, closed |-> w.closed, pre |-> Pre,
                       prev |-> PrevOf(last),
                       rej |-> IF FreeSlots(World) # {} THEN 0 ELSE -1,
                       was |-> last.rej]
    /\ UNCHANGED <<p_mode, p_duration, now, subOf, pubs>>

\* accept() fails: handle_new_connection returns at once, nothing changed.
AcceptFails ==
    /\ fds[0] = SERVER_FD
    /\ nconn < MaxConns
    /\ UNCHANGED vars

\* The poll loop finds slot i readable and calls handle_client_data.
HandleClientData(i) ==
    /\ fds[i] # -1
    /\ \E rd \in Reads :
         \E env \in Envs(World, i, rd, p_mode) :
           \E w \in {handle_client_data(World, i, rd, p_mode, p_duration, now, env)} :
             LET freshSub == rd.n > 0 /\ subOf[i] = <<>> /\ SubTopicOf(rd.data) # <<>>
                 appended == /\ rd.n > 0 /\ IsPubOf(rd.data)
                             /\ p_mode # PERSIST_NONE /\ env.appendOk
             IN  /\ Commit(w)
                 /\ subOf' = [subOf EXCEPT ![i] =
                                 IF w.owner[fds[i]] = 0 THEN <<>>
                                 ELSE IF freshSub THEN SubTopicOf(rd.data)
                                 ELSE @]
                 /\ pubs' = IF appended
                            THEN [pubs EXCEPT ![PubTopicOf(rd.data)] =
                                     Append(@, [msg |-> PubMsgOf(rd.data), t |-> TimeRead])]
                            ELSE pubs
                 /\ last' = [op |-> "data", slot |-> i, conn |-> owner[fds[i]],
                             fd |-> fds[i], rd |-> rd, env |-> env, t |-> TimeRead,
                             writes |-> w.writes, closed |-> w.closed, pre |-> Pre,
                             prev |-> PrevOf(last),
                             rej |-> RejAfter(last.rej, i, w.fds[i] = -1),
                             was |-> last.rej]
    /\ UNCHANGED <<p_mode, p_duration, now, nconn>>

\* The poll loop finds slot i readable with a well-formed SUB and the broker
\* process is killed inside send_persisted_messages, k lines handled.  The
\* files stay as they are at that point; the tables are gone with the
\* process, shown as every handle -1.
KillInReplay(i) ==
    /\ fds[i] # -1
    /\ \E rd \in Reads :
         /\ rd.n > 0
         /\ SubTopicOf(rd.data) # <<>>
         /\ \E k \in 0..Len(ReplayLines(World, SubTopicOf(rd.data), p_mode)) :
              \E w \in {ReplayInterrupted(World, fds[i], SubTopicOf(rd.data),
                                          p_mode, p_duration, now, k)} :
                /\ logs' = w.logs
                /\ tmps' = w.tmps
                /\ last' = [op |-> "kill", slot |-> 0, conn |-> 0, fd |-> -1,
                            rd |-> rd, env |-> NoEnv, t |-> TimeRead,
                            writes |-> w.writes, closed |-> <<>>,
                            pre |-> [fds |-> Gone.fds, clients |-> Gone.clients,
                                     logs |-> logs, tmps |-> tmps,
                                     owner |-> Gone.owner, subOf |-> Gone.subOf,
                                     pubs |-> pubs],
                            prev |-> NoPrev, rej |-> 0, was |-> 0]
    /\ fds' = Gone.fds
    /\ clients' = Gone.clients
    /\ owner' = Gone.owner
    /\ subOf' = Gone.subOf
    /\ UNCHANGED <<p_mode, p_duration, now, nconn, pubs>>

\* Whether the replay loop hands this line to write().
IsWritten(line, mode, duration, t) ==
    mode = PERSIST_ALL \/ (mode = PERSIST_TIMED /\ TimedLine(line, duration, t).valid)

\* The poll loop finds slot i readable with a well-formed SUB of a peer
\* that has closed its end.  A write() of the replay is answered by a reset
\* and a later write() of the same loop, for line k + 1, raises SIGPIPE,
\* which the broker neither ignores nor handles: the process ends there,
\* k lines handled.
SigPipeInReplay(i) ==
    /\ fds[i] # -1
    /\ \E rd \in Reads :
         /\ rd.n > 0
         /\ SubTopicOf(rd.data) # <<>>
         /\ \E lines \in {ReplayLines(World, SubTopicOf(rd.data), p_mode)} :
              \E k \in 1..(Len(lines) - 1) :
                /\ IsWritten(lines[k + 1], p_mode, p_duration, now)
                /\ \E m \in 1..k : IsWritten(lines[m], p_mode, p_duration, now)
                /\ \E w \in {ReplayInterrupted(World, fds[i], SubTopicOf(rd.data),
                                              p_mode, p_duration, now, k)} :
                     /\ logs' = w.logs
                     /\ tmps' = w.tmps
                     /\ last' = [op |-> "sigpipe", slot |-> i, conn |-> owner[fds[i]],
                                 fd |-> fds[i], rd |-> rd, env |-> NoEnv, t |-> TimeRead,
                                 writes |-> w.writes, closed |-> <<>>,
                                 pre |-> [fds |-> Gone.fds, clients |-> Gone.clients,
                                          logs |-> logs, tmps |-> tmps,
                                          owner |-> Gone.owner, subOf |-> Gone.subOf,
                                          pubs |-> pubs],
                                 prev |-> NoPrev, rej |-> 0, was |-> 0]
    /\ fds' = Gone.fds
    /\ clients' = Gone.clients
    /\ owner' = Gone.owner
    /\ subOf' = Gone.subOf
    /\ UNCHANGED <<p_mode, p_duration, now, nconn, pubs>>

\* A second passes.
Tick ==
    /\ now < Epoch + MaxTick
    /\ now' = now + 1
    /\ UNCHANGED <<fds, clients, p_mode, p_duration, logs, tmps, owner, nconn,
                   subOf, pubs, last>>

Next ==
    \/ HandleNewConnection
    \/ AcceptFails
    \/ \E i \in ClientSlots : HandleClientData(i)
    \/ \E i \in ClientSlots : KillInReplay(i)
    \/ \E i \in ClientSlots : SigPipeInReplay(i)
    \/ Tick

Spec == Init /\ [][Next]_vars

\* The broker started without a persistence flag, with --persist-all, with
\* --persist-timed.
InitNone == Init /\ p_mode = PERSIST_NONE

InitAll == Init /\ p_mode = PERSIST_ALL

InitTimed == Init /\ p_mode = PERSIST_TIMED

SpecNone == InitNone /\ [][Next]_vars

SpecAll == InitAll /\ [][Next]_vars

SpecTimed == InitTimed /\ [][Next]_vars

\* ------------------------------------------------------------------------
\* Vocabulary of the properties
\* ------------------------------------------------------------------------

\* The call just made was handle_client_data on a non-empty read.
DataCall == last.op = "data" /\ last.rd.n > 0

\* ... of a well-formed PUB for a known topic.
PubCall == DataCall /\ IsPubOf(last.rd.data)

\* ... of a well-formed SUB from a peer that had not subscribed yet.
SubCall == DataCall /\ SubTopicOf(last.rd.data) # <<>>
           /\ last.pre.subOf[last.slot] = <<>>

\* The buffers handed to write() during the call, in order.
WriteData == [k \in 1..Len(last.writes) |-> last.writes[k].data]

\* A text cut after each newline; a rest without newline is a last line.
RECURSIVE SplitLines(_)
SplitLines(s) ==
    IF s = <<>> THEN <<>>
    ELSE LET nl == StrChr(s, 1, "\n")
         IN  IF nl = 0 THEN <<s>>
             ELSE <<SubSeq(s, 1, nl)>> \o SplitLines(From(s, nl + 1))

\* A log line of the timed format, <digits><space><message>: its parts.
EntrySpace(line) == StrChr(line, 1, " ")

IsEntry(line) ==
    /\ EntrySpace(line) > 1
    /\ \A k \in 1..(EntrySpace(line) - 1) : IsDigit(line[k])

EntryTime(line) == DigitsValue(SubSeq(line, 1, EntrySpace(line) - 1), 0)

EntryMsg(line) == From(line, EntrySpace(line) + 1)

\* The messages of a publish history still within the duration at time t.
Alive(hist, t) ==
    SelectSeq(hist, LAMBDA e : p_mode = PERSIST_ALL \/ t - e.t <= p_duration)

MsgsOf(hist) == [k \in 1..Len(hist) |-> hist[k].msg]

\* ------------------------------------------------------------------------
\* C1 .. C10
\* ------------------------------------------------------------------------

\* C1: a peer whose well-formed SUB T was handled in the call before, and
\* which has sent nothing since, is written exactly the frame MSG T\nM, once,
\* when a PUB T\nM of another connection is handled.
C1_LiveDelivery ==
    (/\ PubCall
     /\ last.prev.sub = PubTopicOf(last.rd.data)
     /\ last.prev.conn # last.conn)
    => /\ \E k \in 1..Len(last.writes) :
            /\ last.writes[k].conn = last.prev.conn
            /\ last.writes[k].data =
                   Frame(PubTopicOf(last.rd.data), PubMsgOf(last.rd.data))
       /\ Cardinality({k \in 1..Len(last.writes) :
                          last.writes[k].conn = last.prev.conn}) = 1

\* C2: after a well-formed SUB from a connection in state Unknown the slot
\* still holds the open handle, is a Subscriber and has the topic recorded,
\* and it stays so for as long as the peer neither disconnects nor sends.
C2_SubscribeTransition ==
    /\ (SubCall /\ last.pre.clients[last.slot].type = CLIENT_TYPE_UNKNOWN)
       => /\ fds[last.slot] = last.fd
          /\ clients[last.slot].fd = last.fd
          /\ owner[last.fd] = last.conn
          /\ clients[last.slot].type = CLIENT_TYPE_SUBSCRIBER
          /\ clients[last.slot].topic = SubTopicOf(last.rd.data)
    /\ \A j \in ClientSlots :
          subOf[j] # <<>> => /\ fds[j] # -1
                             /\ clients[j].type = CLIENT_TYPE_SUBSCRIBER
                             /\ clients[j].topic = subOf[j]

\* C3: every MSG frame written during a call is the frame of the publish
\* being handled and goes to a connection whose peer subscribed to exactly
\* that topic; so a subscriber of T gets no frame of T' # T and a peer that
\* never sent a well-formed SUB gets no frame at all.
C3_TopicIsolation ==
    \A k \in 1..Len(last.writes) :
        StartsWith(last.writes[k].data, MSG)
        => /\ PubCall
           /\ last.writes[k].data =
                  Frame(PubTopicOf(last.rd.data), PubMsgOf(last.rd.data))
           /\ \E j \in ClientSlots :
                 /\ last.pre.fds[j] = last.writes[k].fd
                 /\ last.pre.subOf[j] = PubTopicOf(last.rd.data)

\* A publish is handled while another connection, which never subscribed,
\* is open, right after a peer asked for a different topic.
C3_Witness ==
    /\ PubCall
    /\ last.prev.sub # <<>>
    /\ last.prev.sub # PubTopicOf(last.rd.data)
    /\ \E j \in ClientSlots : j # last.slot /\ last.pre.fds[j] # -1

\* C4: with every client slot occupied, handle_new_connection closes the
\* accepted handle without registering it and leaves both tables, slot 0
\* included, as they were.
C4_CapacityRejection ==
    (last.op = "accept" /\ \A i \in ClientSlots : last.pre.fds[i] # -1)
    => /\ fds = last.pre.fds
       /\ clients = last.pre.clients
       /\ fds[0] = SERVER_FD
       /\ last.closed = <<last.fd>>
       /\ owner[last.fd] = 0
       /\ \A f \in FdRange : f # last.fd => owner[f] = last.pre.owner[f]

C4_Witness ==
    /\ last.op = "accept"
    /\ \A i \in ClientSlots : last.pre.fds[i] # -1

\* C5: under mode none no log file and no temp file exists, whatever was
\* published or subscribed, and a subscribe replays nothing.
C5_NoneCreatesNothing ==
    p_mode = PERSIST_NONE
    => /\ \A t \in DOMAIN logs : ~logs[t].exists
       /\ \A t \in DOMAIN tmps : ~tmps[t].exists
       /\ (SubCall => last.writes = <<>>)

\* Under mode none a publish has just been handled after a subscribe.
C5_Witness ==
    /\ p_mode = PERSIST_NONE
    /\ PubCall
    /\ last.prev.sub = PubTopicOf(last.rd.data)

\* C6: under mode all the log of a topic holds one line per message that
\* was persisted for it, in order: cut into lines it reads back as exactly
\* the sequence of published messages.
C6_OneLinePerMessage ==
    p_mode = PERSIST_ALL
    => \A t \in Topics :
          SplitLines(GetFile(logs, t).data) = MsgsOf(pubs[t])

\* C7: a completed timed replay over a log of well-formed entries writes
\* the message of exactly the entries with now - timestamp <= duration, in
\* order, and leaves exactly those entries, unchanged, in the log.
C7_TimedExpiry ==
    (/\ p_mode = PERSIST_TIMED
     /\ SubCall
     /\ Completed(last.env)
     /\ GetFile(last.pre.logs, SubTopicOf(last.rd.data)).exists
     /\ \A k \in 1..Len(SplitLines(
               GetFile(last.pre.logs, SubTopicOf(last.rd.data)).data)) :
           IsEntry(SplitLines(
               GetFile(last.pre.logs, SubTopicOf(last.rd.data)).data)[k]))
    => LET t     == SubTopicOf(last.rd.data)
           lines == SplitLines(GetFile(last.pre.logs, t).data)
           keep  == SelectSeq(lines,
                        LAMBDA l : last.t - EntryTime(l) <= p_duration)
       IN  /\ WriteData = [k \in 1..Len(keep) |-> EntryMsg(keep[k])]
           /\ GetFile(logs, t).exists
           /\ GetFile(logs, t).data = Concat(keep)

\* No timed entry of the history is within the duration at one of the two
\* times and beyond it at the other.
NoCrossing(hist, t1, t2) ==
    \A k \in 1..Len(hist) :
        (t1 - hist[k].t <= p_duration) <=> (t2 - hist[k].t <= p_duration)

\* C8: two completed replays of one topic with no publish in between and
\* no entry crossing its expiry deliver the same output, and the second
\* leaves the log as the first left it.
C8_ReplayIdempotent ==
    (/\ p_mode # PERSIST_NONE
     /\ SubCall
     /\ Completed(last.env)
     /\ last.prev.sub = SubTopicOf(last.rd.data)
     /\ last.prev.done
     /\ \/ p_mode = PERSIST_ALL
        \/ NoCrossing(pubs[last.prev.sub], last.prev.t, last.t))
    => /\ OutTo(last.writes, last.conn) = last.prev.out
       /\ logs = last.pre.logs

\* A timed replay repeated one second later with nothing expired in between
\* and something to deliver.
C8_Witness ==
    /\ p_mode = PERSIST_TIMED
    /\ SubCall
    /\ Completed(last.env)
    /\ last.prev.sub = SubTopicOf(last.rd.data)
    /\ last.prev.done
    /\ last.t > last.prev.t
    /\ NoCrossing(pubs[last.prev.sub], last.prev.t, last.t)
    /\ last.prev.out # <<>>

\* C9: a completed replay delivers, byte for byte and in order, the payload
\* of every message persisted for the topic and not yet expired, and nothing
\* else.
C9_RoundTrip ==
    (/\ p_mode # PERSIST_NONE
     /\ SubCall
     /\ Completed(last.env))
    => OutTo(last.writes, last.conn) =
           Concat(MsgsOf(Alive(last.pre.pubs[SubTopicOf(last.rd.data)],
                               last.t)))

\* C10: under mode all a replay writes every line of the log, in order and
\* as stored, to the subscribing connection only, and changes no file; this
\* holds for every replay.
C10_ReplayAllVerbatim ==
    (p_mode = PERSIST_ALL /\ SubCall)
    => LET data == GetFile(last.pre.logs, SubTopicOf(last.rd.data)).data
       IN  /\ \A k \in 1..Len(last.writes) :
                 last.writes[k].conn = last.conn
           /\ Concat(WriteData) = data
           /\ (\A k \in 1..Len(SplitLines(data)) :
                   Len(SplitLines(data)[k]) < BUFFER_SIZE)
              => WriteData = SplitLines(data)
           /\ logs = last.pre.logs
           /\ tmps = last.pre.tmps

\* A log of several lines is replayed a second time.
C10_Witness ==
    /\ p_mode = PERSIST_ALL
    /\ SubCall
    /\ Len(last.writes) >= 2
    /\ last.prev.sub = SubTopicOf(last.rd.data)

\* ------------------------------------------------------------------------
\* C11 .. C20
\* ------------------------------------------------------------------------

\* The slot of the call just made is free, its handle was closed by the
\* call, and no slot holds the connection any more.
Released ==
    /\ fds[last.slot] = -1
    /\ clients[last.slot].fd = -1
    /\ last.closed = <<last.fd>>
    /\ owner[last.fd] = 0
    /\ \A j \in ClientSlots : fds[j] # -1 => owner[fds[j]] # last.conn

\* The call just made left every slot but its own as it was.
OthersUntouched ==
    \A j \in Slots :
        j # last.slot => /\ fds[j] = last.pre.fds[j]
                         /\ clients[j] = last.pre.clients[j]

\* The call just made left every log and temp file as it was.
FilesUntouched == logs = last.pre.logs /\ tmps = last.pre.tmps

\* Input that begins with PUB but has no newline, or whose text between PUB
\* and the first newline is empty or not shorter than MAX_TOPIC_LEN.
MalformedPub(bytes) ==
    /\ StartsWith(bytes, PUB)
    /\ \/ StrChr(bytes, 1, "\n") = 0
       \/ StrChr(bytes, 1, "\n") = Len(PUB) + 1
       \/ StrChr(bytes, 1, "\n") - Len(PUB) - 1 >= MAX_TOPIC_LEN

\* The topic text of a SUB command: up to the first newline or the end.
SubText(bytes) ==
    IF StrChr(bytes, Len(SUB) + 1, "\n") = 0 THEN From(bytes, Len(SUB) + 1)
    ELSE SubSeq(bytes, Len(SUB) + 1, StrChr(bytes, Len(SUB) + 1, "\n") - 1)

MalformedSub(bytes) ==
    /\ StartsWith(bytes, SUB)
    /\ (SubText(bytes) = <<>> \/ Len(SubText(bytes)) >= MAX_TOPIC_LEN)

\* C11: a non-empty read that begins with PUB, well-formed or not, leaves
\* the sender's handle closed and its slot free in both tables, so that the
\* connection is never handled again.
C11_PublishSingleShot ==
    (DataCall /\ StartsWith(last.rd.data, PUB))
    => /\ Released
       /\ OthersUntouched

\* A well-formed publish that was appended to a log has just been handled.
C11_Witness ==
    /\ PubCall
    /\ last.env.appendOk
    /\ p_mode # PERSIST_NONE

\* C12: a malformed PUB changes no log, writes nothing to any connection
\* and leaves the sender closed.
C12_MalformedPubRejected ==
    (DataCall /\ MalformedPub(last.rd.data))
    => /\ FilesUntouched
       /\ last.writes = <<>>
       /\ pubs = last.pre.pubs
       /\ Released

\* A PUB with an empty topic and a message arrives under a persisting mode
\* after a peer subscribed.
C12_Witness ==
    /\ DataCall
    /\ last.rd.data = PubOf(<<>>, M_line)
    /\ p_mode # PERSIST_NONE
    /\ last.prev.sub # <<>>

\* C13: from Unknown a SUB with an empty or oversized topic closes the
\* connection and frees its slot with state Unknown and no topic; nothing
\* is replayed and no file is touched.
C13_MalformedSubRejected ==
    (/\ DataCall
     /\ MalformedSub(last.rd.data)
     /\ last.pre.clients[last.slot].type = CLIENT_TYPE_UNKNOWN)
    => /\ Released
       /\ clients[last.slot] = FreeClient
       /\ last.writes = <<>>
       /\ FilesUntouched
       /\ OthersUntouched

\* A SUB with a topic of MAX_TOPIC_LEN bytes arrives.
C13_Witness ==
    /\ DataCall
    /\ last.rd.data = SUB \o LongTopic
    /\ last.pre.clients[last.slot].type = CLIENT_TYPE_UNKNOWN

\* C14: from Unknown a non-empty input that begins with neither SUB nor PUB
\* closes the connection and frees its slot; no file is touched, nothing is
\* written to any connection and no other slot changes.
C14_UnknownCommand ==
    (/\ DataCall
     /\ ~StartsWith(last.rd.data, SUB)
     /\ ~StartsWith(last.rd.data, PUB)
     /\ last.pre.clients[last.slot].type = CLIENT_TYPE_UNKNOWN)
    => /\ Released
       /\ clients[last.slot] = FreeClient
       /\ last.writes = <<>>
       /\ FilesUntouched
       /\ OthersUntouched

\* An unknown command arrives while another connection is open and a log
\* exists.
C14_Witness ==
    /\ DataCall
    /\ last.rd.data \in OtherInputs
    /\ \E j \in ClientSlots : j # last.slot /\ last.pre.fds[j] # -1
    /\ \E t \in Topics : GetFile(last.pre.logs, t).exists

\* Between two calls no slot is in state Subscriber or has a topic recorded,
\* and no call has written a MSG frame: the slot of a well-formed SUB is
\* released before handle_client_data returns.
NoSubscriberBetweenCalls ==
    /\ \A j \in Slots : /\ clients[j].type = CLIENT_TYPE_UNKNOWN
                        /\ clients[j].topic = <<>>
                        /\ subOf[j] = <<>>
    /\ \A k \in 1..Len(last.writes) : ~StartsWith(last.writes[k].data, MSG)
    /\ last.env.wfail = {}

\* A zero-length or failed read releases the slot it was made on and
\* changes nothing else.
ZeroLengthReadReleases ==
    (last.op = "data" /\ last.rd.n <= 0)
    => /\ Released
       /\ clients[last.slot] = FreeClient
       /\ OthersUntouched
       /\ FilesUntouched
       /\ last.writes = <<>>

\* C19: when the log cannot be opened for append during a well-formed
\* publish, the log stays as it was, the frame MSG T\nM is still written to
\* a peer that subscribed to T in the call before and has sent nothing
\* since, and the publisher is closed.
C19_PersistFailureDelivers ==
    (/\ PubCall
     /\ p_mode # PERSIST_NONE
     /\ ~last.env.appendOk
     /\ last.prev.sub = PubTopicOf(last.rd.data)
     /\ last.prev.conn # last.conn)
    => /\ FilesUntouched
       /\ Released
       /\ \E k \in 1..Len(last.writes) :
             /\ last.writes[k].conn = last.prev.conn
             /\ last.writes[k].data =
                    Frame(PubTopicOf(last.rd.data), PubMsgOf(last.rd.data))

\* What C19 says of the log and of the publisher alone.
PersistFailureDropsMessage ==
    (PubCall /\ p_mode # PERSIST_NONE /\ ~last.env.appendOk)
    => /\ FilesUntouched
       /\ pubs = last.pre.pubs
       /\ Released

\* The log a completed timed replay of topic at the time of the last call
\* puts in place of the one it found.
Rewritten(topic) ==
    [exists |-> TRUE,
     data   |-> ReplayLoop(FGetsLines(GetFile(last.pre.logs, topic).data),
                           PERSIST_TIMED, p_duration, last.t).kept]

\* C20: a timed replay never changes the log in place.  Killed inside the
\* loop, or with the temp file not opened or not renamed, it leaves every
\* log as it found it; completed, it leaves the replayed topic's log as the
\* complete rewritten contents and every other log as it was.
C20_AtomicCompaction ==
    /\ last.op = "kill" => logs = last.pre.logs
    /\ (/\ p_mode = PERSIST_TIMED
        /\ SubCall
        /\ GetFile(last.pre.logs, SubTopicOf(last.rd.data)).exists)
       => /\ DOMAIN logs = DOMAIN last.pre.logs
          /\ \A u \in DOMAIN logs :
                u # SubTopicOf(last.rd.data) => logs[u] = last.pre.logs[u]
          /\ IF last.env.tmpOk /\ last.env.renameOk
             THEN /\ logs[SubTopicOf(last.rd.data)] =
                         Rewritten(SubTopicOf(last.rd.data))
                  /\ ~GetFile(tmps, SubTopicOf(last.rd.data)).exists
             ELSE /\ logs = last.pre.logs
                  /\ last.env.tmpOk
                     => GetFile(tmps, SubTopicOf(last.rd.data)) =
                            Rewritten(SubTopicOf(last.rd.data))
                  /\ ~last.env.tmpOk => tmps = last.pre.tmps

\* The broker was killed in a timed replay with part of the entries already
\* printed to the temp file.
C20_Witness ==
    /\ last.op = "kill"
    /\ p_mode = PERSIST_TIMED
    /\ \E t \in Topics :
          /\ GetFile(tmps, t).exists
          /\ GetFile(tmps, t).data # <<>>
          /\ Len(GetFile(tmps, t).data) < Len(GetFile(logs, t).data)

\* A timed replay whose rename failed, with an expired entry in the log.
C20_RenameFailed ==
    /\ p_mode = PERSIST_TIMED
    /\ SubCall
    /\ last.env.tmpOk
    /\ ~last.env.renameOk
    /\ GetFile(tmps, SubTopicOf(last.rd.data)).exists
    /\ GetFile(tmps, SubTopicOf(last.rd.data)).data
           # GetFile(logs, SubTopicOf(last.rd.data)).data


\* ------------------------------------------------------------------------
\* C21 .. C29
\* ------------------------------------------------------------------------

\* A log line that does not start with an integer: strtol converts nothing.
NoTimestamp(line) ==
    line = <<>> \/ ~(IsDigit(line[1]) \/ IsSpace(line[1]) \/ line[1] \in {"+", "-"})

\* The lines of the log that the subscribe call just made found on disk.
ReplayedLog == GetFile(last.pre.logs, SubTopicOf(last.rd.data))

\* A completed timed replay of a log whose lines fit the line buffer and
\* are each a timed entry or a line without a timestamp.
TimedReplayOfMixedLog ==
    /\ p_mode = PERSIST_TIMED
    /\ SubCall
    /\ Completed(last.env)
    /\ p_duration < last.t
    /\ ReplayedLog.exists
    /\ \A k \in 1..Len(SplitLines(ReplayedLog.data)) :
          LET l == SplitLines(ReplayedLog.data)[k]
          IN  Len(l) < BUFFER_SIZE /\ (NoTimestamp(l) \/ IsEntry(l))

\* C21: in a completed timed replay a line without a parseable timestamp is
\* neither written to the subscriber nor kept in the rewritten log, while
\* the well-formed entries still within the duration are written and kept,
\* in order.
C21_UnparseableTimestamp ==
    TimedReplayOfMixedLog
    => LET lines == SplitLines(ReplayedLog.data)
           keep  == SelectSeq(lines,
                        LAMBDA l : /\ ~NoTimestamp(l)
                                   /\ last.t - EntryTime(l) <= p_duration)
       IN  /\ WriteData = [k \in 1..Len(keep) |-> EntryMsg(keep[k])]
           /\ GetFile(logs, SubTopicOf(last.rd.data)).data = Concat(keep)

\* A replay of a log that holds a line without timestamp next to an entry
\* that is still within the duration.
C21_Witness ==
    /\ TimedReplayOfMixedLog
    /\ \E k \in 1..Len(SplitLines(ReplayedLog.data)) :
          NoTimestamp(SplitLines(ReplayedLog.data)[k])
    /\ \E k \in 1..Len(SplitLines(ReplayedLog.data)) :
          /\ IsEntry(SplitLines(ReplayedLog.data)[k])
          /\ last.t - EntryTime(SplitLines(ReplayedLog.data)[k]) <= p_duration
    /\ WriteData # <<>>

\* A valid subscribe call under mode all or timed for a topic without log.
SubWithoutLog ==
    /\ SubCall
    /\ p_mode \in {PERSIST_ALL, PERSIST_TIMED}
    /\ ~ReplayedLog.exists

\* The state the call just made started from, with log contents d on disk
\* for the requested topic.
PreWithLog(d) ==
    [fds |-> last.pre.fds, clients |-> last.pre.clients,
     logs |-> PutFile(last.pre.logs, SubTopicOf(last.rd.data),
                      [exists |-> TRUE, data |-> d]),
     tmps |-> last.pre.tmps, owner |-> last.pre.owner,
     writes |-> <<>>, closed |-> <<>>]

OneReplay ==
    IF p_mode = PERSIST_NONE \/ ~ReplayedLog.exists
       \/ (p_mode = PERSIST_TIMED /\ ~last.env.tmpOk)
    THEN <<>>
    ELSE ReplayLoop(FGetsLines(ReplayedLog.data), p_mode, p_duration, last.t).out

\* C23: a valid SUB T runs the replay of T's log exactly once, inside the
\* call that handles it: everything the call writes goes to the handle of
\* the subscribing connection, what is written is the output of one pass
\* over the log and nothing else (no frame before or among it), and the log
\* and temp file of every other topic are left as they were.
C23_ReplayOnSubscribe ==
    SubCall
    => /\ \A k \in 1..Len(last.writes) :
             /\ last.writes[k].fd = last.fd
             /\ last.writes[k].conn = last.conn
       /\ WriteData = OneReplay
       /\ \A u \in (DOMAIN logs \cup DOMAIN last.pre.logs) \ {SubTopicOf(last.rd.data)} :
             /\ GetFile(logs, u) = GetFile(last.pre.logs, u)
             /\ GetFile(tmps, u) = GetFile(last.pre.tmps, u)

\* A subscribe that replayed stored messages while another connection was
\* open.
C23_Witness ==
    /\ SubCall
    /\ WriteData # <<>>
    /\ \E j \in ClientSlots : j # last.slot /\ last.pre.fds[j] # -1

\* The call just made was a handle_new_connection that registered the new
\* handle in slot j.
AcceptedInto(j) ==
    /\ last.op = "accept"
    /\ j \in ClientSlots
    /\ last.pre.fds[j] = -1
    /\ fds[j] = last.fd

\* C24: after every call each client slot has a non-empty topic exactly when
\* its state is Subscriber, a Subscriber slot holds a handle, a free slot
\* has state Unknown and an empty topic, and a connection just accepted
\* starts in state Unknown with an empty topic whoever held the slot before.
C24_SlotStateConsistency ==
    \A j \in ClientSlots :
        /\ (clients[j].topic # <<>>) <=> (clients[j].type = CLIENT_TYPE_SUBSCRIBER)
        /\ clients[j].type = CLIENT_TYPE_SUBSCRIBER => fds[j] # -1
        /\ fds[j] = -1 => /\ clients[j].type = CLIENT_TYPE_UNKNOWN
                          /\ clients[j].topic = <<>>
        /\ AcceptedInto(j) => /\ clients[j].type = CLIENT_TYPE_UNKNOWN
                              /\ clients[j].topic = <<>>

\* The second connection has just been accepted into slot 1, which the
\* first connection held until its publish was handled.
C24_Witness ==
    /\ AcceptedInto(1)
    /\ last.conn = 2
    /\ \E t \in Topics : pubs[t] # <<>>

\* The broker process is running: slot 0 holds the listening socket.
Running == last.op \notin {"kill", "sigpipe"}

\* C25: while the broker runs, after every operation the handle of each
\* slot 0..MAX_CLIENTS is the same in the readiness set and in the
\* connection table, a free slot has -1 in both, slot 0 holds the listening
\* socket, which is never closed, and nothing is written to it.
C25_ParallelTables ==
    Running
    => /\ \A i \in Slots : fds[i] = clients[i].fd
       /\ fds[0] = SERVER_FD
       /\ \A k \in 1..Len(last.closed) : last.closed[k] # SERVER_FD
       /\ \A k \in 1..Len(last.writes) : last.writes[k].fd # SERVER_FD

\* A publish has just been handled, and its slot released, while the other
\* client slot holds a connection.
C25_Witness ==
    /\ PubCall
    /\ fds[last.slot] = -1
    /\ \E j \in ClientSlots : j # last.slot /\ fds[j] # -1

\* The client slots that hold handle f.
SlotsOf(f) == {j \in ClientSlots : fds[j] = f}

\* C26: while the broker runs, every handle that was accepted and not yet
\* closed is held by exactly one client slot, every handle in a client slot
\* is such an open handle, and a call closes exactly the handles it removes
\* from a slot or rejects at capacity, each once and each open until then.
C26_NoLeakNoDoubleOwner ==
    Running
    => /\ \A f \in FdRange : owner[f] # 0 => Cardinality(SlotsOf(f)) = 1
       /\ \A j \in ClientSlots : fds[j] # -1 => (fds[j] \in FdRange /\ owner[fds[j]] # 0)
       /\ \A k \in 1..Len(last.closed) :
             /\ last.closed[k] \in FdRange
             /\ owner[last.closed[k]] = 0
             /\ \A m \in 1..Len(last.closed) : last.closed[m] = last.closed[k] => m = k
             /\ \/ \E j \in ClientSlots : last.pre.fds[j] = last.closed[k] /\ fds[j] = -1
                \/ last.op = "accept" /\ last.closed[k] = last.fd
       /\ \A j \in ClientSlots :
             (last.pre.fds[j] # -1 /\ fds[j] # last.pre.fds[j])
             => \E k \in 1..Len(last.closed) : last.closed[k] = last.pre.fds[j]

\* A handle has been reused: the third connection holds a slot and a handle
\* after an earlier connection was closed, while another connection is open.
C26_Witness ==
    /\ Running
    /\ last.op = "data"
    /\ last.closed # <<>>
    /\ \E f \in FdRange : owner[f] = 3
    /\ \E j \in ClientSlots : fds[j] # -1

\* The client slots that were free before the call just made.
FreeBefore == {j \in ClientSlots : last.pre.fds[j] = -1}

\* C27: a connection stays in the slot it was accepted into until it is
\* closed; handle_new_connection registers the new connection in the
\* lowest free client slot; never more than MAX_CLIENTS accepted handles are
\* open after a call; and after a rejection at capacity, once a slot has
\* been released, the next accept registers its connection in that slot.
C27_SlotStabilityAndReuse ==
    Running
    => /\ \A j, k \in ClientSlots :
             (/\ last.op \in {"accept", "data"}
              /\ last.pre.fds[j] # -1
              /\ fds[k] # -1
              /\ last.pre.owner[last.pre.fds[j]] = owner[fds[k]])
             => (j = k /\ fds[k] = last.pre.fds[j])
       /\ (last.op = "accept" /\ FreeBefore # {})
          => /\ AcceptedInto(SetMin(FreeBefore))
             /\ owner[last.fd] = last.conn
             /\ last.closed = <<>>
       /\ Cardinality({f \in FdRange : owner[f] # 0}) <= MAX_CLIENTS
       /\ (last.op = "accept" /\ last.was > 0) => AcceptedInto(last.was)

\* A connection was rejected at capacity, slot 2 was released after that,
\* and the accept just made registered its connection in slot 2.
C27_Witness ==
    /\ last.op = "accept"
    /\ last.was = 2
    /\ AcceptedInto(2)
    /\ fds[1] # -1

\* The call just made read a PUB that the parser accepts: a newline is
\* present and the text between PUB and it has 1..MAX_TOPIC_LEN-1 bytes.
AcceptedPub ==
    /\ DataCall
    /\ StartsWith(last.rd.data, PUB)
    /\ ~MalformedPub(last.rd.data)

\* The frame the forwarding loop formats for the publish just read.
FrameOfRead ==
    LET nl == StrChr(last.rd.data, 1, "\n")
    IN  Frame(SubSeq(last.rd.data, Len(PUB) + 1, nl - 1), From(last.rd.data, nl + 1))

\* C29: for every PUB the parser accepts the frame MSG <topic>\n<message>
\* is as long as the bytes read, which are at most BUFFER_SIZE-1, so it is
\* shorter than BUFFER_SIZE and the test that skips a subscriber is false.
C29_FramingNeverOverflows ==
    AcceptedPub
    => /\ Len(FrameOfRead) = last.rd.n
       /\ last.rd.n <= BUFFER_SIZE - 1
       /\ ~(Len(FrameOfRead) >= BUFFER_SIZE)

\* A publish that fills the read buffer has just been handled and appended.
C29_Witness ==
    /\ AcceptedPub
    /\ last.rd.n = BUFFER_SIZE - 1
    /\ pubs # last.pre.pubs

\* The events a client can cause: a connection attempt, bytes or a
\* disconnect on a connection, a reset that meets the replay to it.
ClientEvent == last.op \in {"accept", "data", "sigpipe"}

\* C28: whatever a client does (disconnect, malformed or unknown command,
\* oversized topic, connection beyond capacity, a failure of persistence or
\* of a write to it), the broker still runs afterwards: slot 0 holds the
\* listening socket and the poll loop goes on.
C28_ClientCannotStopBroker == ClientEvent => fds[0] = SERVER_FD

\* Every call of handle_new_connection and handle_client_data that returns
\* leaves the listening socket in slot 0: no handler ends the loop.
HandlersReturnToLoop == last.op \in {"accept", "data"} => fds[0] = SERVER_FD
=============================================================================
